---- MODULE Spec2Model ----
(***************************************************************************)
(* A model of thenable::then (include/then.hpp): one chain built by one    *)
(* call of then(source, functor, policy), together with the threads that   *)
(* take part in it: the calling thread, the unit of work that resolves the *)
(* source, invokes the callback and resolves its result, and the owners of *)
(* the shared states the chain waits for.                                  *)
(***************************************************************************)
EXTENDS Integers, Sequences, FiniteSets, TLC

(* ----------------------------- bounds ---------------------------------- *)

\* A source or a callback result is nested at most MaxNest levels deep
\* (MaxNest = 1: future<future<int>> and the three other two-layer mixes).
MaxNest == 1

\* The payloads are the integers 1..NValues.
NValues == 2

Values == 1..NValues

\* The errors a shared state can be settled with and a callback can raise.
Errors == {"E1", "E2"}

(* ------------------------------ types ---------------------------------- *)

\* std::launch::deferred, std::launch::async, default_policy
\* (deferred | async), then_launch::detached.
Policies == {"deferred", "async", "system", "detached"}

\* The wrapper of one layer: std::future or std::shared_future.
Kinds == {"future", "shared"}

\* A static nesting, outermost layer first: <<"future", "shared">> is
\* future<shared_future<int>>.
NestTypes == UNION {[1..n -> Kinds] : n \in 1..(MaxNest + 1)}

\* The argument of then: a future (by rvalue or by reference), a
\* shared_future, or a promise, whose future then() obtains.  The innermost
\* payload is an int or void.
Sources ==
    {s \in [kind : {"future", "shared", "promise"}, type : NestTypes,
            payload : {"int", "void"}] :
        s.type[1] = (IF s.kind = "shared" THEN "shared" ELSE "future")}

\* The callback: what its declared result type is (a plain value, void, a
\* promise, a nest of futures) and the function it computes.
Functors ==
    [ret : {"plain", "promise"}, nest : {<<>>}, fn : {"id", "succ"}]
        \cup [ret : {"void"}, nest : {<<>>}, fn : {"id"}]
        \cup [ret : {"future"}, nest : NestTypes, fn : {"id", "succ"}]

\* What the callback computes of its argument.
Apply(fn, n) == IF fn = "id" THEN n ELSE (n % NValues) + 1

\* A shared state: pending, or settled with a value or with an error.  The
\* value of an outer layer is the future of the next layer (tag "inner").
Pending == [st |-> "pending", tag |-> "none", n |-> 0, e |-> "none"]

Value(tag, n) == [st |-> "value", tag |-> tag, n |-> n, e |-> "none"]

Error(e) == [st |-> "error", tag |-> "none", n |-> 0, e |-> e]

VARIABLES
    policy,     \* the launch policy given to then
    source,     \* the source given to then: its kind and static nesting
    functor,    \* the callback given to then
    srcCell,    \* the shared state of each layer of the source
    resCell,    \* the shared state of each layer of the callback's result
    srcHandle,  \* the caller's own source object: "valid" or "moved"
    retrieved,  \* the source promise has handed out its future
    launched,   \* how the unit of work was launched
    caller,     \* where the calling thread is
    work,       \* where the unit of work is, and what it holds
    result,     \* the shared state of the future that then returns
    observed,   \* what the caller's request for the result produced
    calls,      \* how many times the callback was invoked
    units,      \* how many threads the chain started
    log,        \* what the unit of work did, in order
    pendingAtReturn, \* the source was still pending when then returned
    settles,    \* how often the result was given a value, and an error
    holders,    \* who holds the shared pointer to the detached promise
    readyAtReturn,   \* the result had settled when the detached then returned
    arrangement, \* how two chains are put together ("single": one chain only)
    origin,     \* the source that two chains start from, and its caller's handle
    links,      \* the two chains: callback, policy and unit of work of each
    futures     \* the future that each of the two then calls returned

vars == <<policy, source, functor, srcCell, resCell, srcHandle, retrieved,
          launched, caller, work, result, observed, calls, units, log,
          pendingAtReturn, settles, holders, readyAtReturn,
          arrangement, origin, links, futures>>

\* The state of one chain on its own, and the state of two chains together.
oneVars == <<policy, source, functor, srcCell, resCell, srcHandle, retrieved,
             launched, caller, work, result, observed, calls, units, log,
             pendingAtReturn, settles, holders, readyAtReturn>>
twoVars == <<arrangement, origin, links, futures>>

static == <<policy, source, functor>>

Idle == [pc |-> "none", runner |-> "none", layer |-> 0, arg |-> 0, out |-> Pending]

Init ==
    /\ policy \in Policies
    /\ source \in Sources
    /\ functor \in Functors
    /\ srcCell = [i \in 1..Len(source.type) |-> Pending]
    /\ resCell = <<>>
    /\ srcHandle = "valid"
    /\ retrieved = FALSE
    /\ launched = "none"
    /\ caller = "start"
    /\ work = Idle
    /\ result = Pending
    /\ observed = Pending
    /\ calls = 0
    /\ units = 0
    /\ log = <<>>
    /\ pendingAtReturn = FALSE
    /\ settles = [value |-> 0, error |-> 0]
    /\ holders = {}
    /\ readyAtReturn = FALSE
    /\ arrangement = "single"
    /\ origin = [type |-> <<>>, cell |-> <<>>, handle |-> "none", takes |-> <<>>,
                 read |-> Pending, retrieved |-> FALSE]
    /\ links = <<>>
    /\ futures = <<>>

(* ------------------------- recursive resolution ------------------------ *)

\* A recursive_get with an overload for every pair of layers.
BindsAny(outer, inner) == TRUE

\* recursive_get<X>::get(k.get()) one layer down.  k.get() of a future is a
\* prvalue: it binds to get(future<P>&&) and converts to shared_future<P>.
\* k.get() of a shared_future is a const lvalue: it copies into
\* get(shared_future<P>), but no overload of recursive_get<P>::get accepts a
\* const future<P>&, so a shared_future whose payload is a future does not
\* instantiate.
Binds(outer, inner) == ~(outer = "shared" /\ inner = "future")

\* The whole nest instantiates: every layer's k.get() binds one layer down.
Instantiable(t) == \A i \in 1..(Len(t) - 1) : Binds(t[i], t[i + 1])

\* then_helper<void, Functor> is specialized for a source of void itself
\* only; for a nest that ends in void the primary template passes the void
\* result of recursive_get as the argument of invoke, which does not build.
VoidDispatchable(s) == s.payload = "void" => Len(s.type) = 1

\* then(source, functor, policy) is well-formed for this source and callback.
WellFormed ==
    /\ Instantiable(source.type)
    /\ VoidDispatchable(source)
    /\ functor.ret = "future" => Instantiable(functor.nest)

\* recursive_get with a get() that hands back whatever the shared state holds
\* and never rethrows a stored error.
recursive_get_unchecked(k, innermost) ==
    IF innermost THEN [to |-> "return", out |-> Value(k.tag, k.n)]
    ELSE [to |-> "recurse", out |-> Pending]

\* One step of recursive_get on the shared state k of a layer that has
\* settled: k.get() rethrows a stored error; at the innermost layer its value
\* is returned, at an outer layer the resolution goes on with the next layer.
recursive_get(k, innermost) ==
    IF k.st = "error" THEN [to |-> "throw", out |-> Error(k.e)]
    ELSE IF innermost THEN [to |-> "return", out |-> Value(k.tag, k.n)]
    ELSE [to |-> "recurse", out |-> Pending]

\* optional_get without its specializations: every result is handed through.
optional_get_primary(ret) == "identity"

\* optional_get<R>: a future or shared_future result goes through
\* recursive_get; every other result type, a promise included, is handed
\* through as it is.
optional_get(ret) == IF ret = "future" THEN "recursive_get" ELSE "identity"

\* optional_get<T>::get(T t) { return t; }: what the callback handed back for
\* argument n goes on as it is: a plain value, nothing (void), the promise
\* object, or (were a future to come this way) the future itself.
Returned(f, n) ==
    CASE f.ret = "plain" -> Value("int", Apply(f.fn, n))
      [] f.ret = "void" -> Value("unit", 0)
      [] f.ret = "promise" -> Value("promise", Apply(f.fn, n))
      [] f.ret = "future" -> Value("inner", 0)

\* An entry of the log: what was done, on which layer, and the error it
\* raised ("none" when it raised none).
Event(ev, i, e) == [ev |-> ev, i |-> i, e |-> e]

\* The error stored in a shared state, "none" when it holds a value.
Stored(k) == IF k.st = "error" THEN k.e ELSE "none"

(* ------------------------ the owners of the futures --------------------- *)

\* The owner of layer i of the source settles it: with an error, or with its
\* value, which for an outer layer is the future of the next layer.  Layer 1
\* of a promise source is settled through the caller's promise.
SettleSource(i, o) ==
    /\ srcCell[i].st = "pending"
    /\ (source.kind = "promise" /\ i = 1) => srcHandle = "valid"
    /\ o.st = "value" =>
          o.tag = (IF i < Len(source.type) THEN "inner"
                   ELSE IF source.payload = "void" THEN "unit" ELSE "int")
    /\ srcCell' = [srcCell EXCEPT ![i] = o]
    /\ UNCHANGED <<static, twoVars, settles, holders, readyAtReturn, pendingAtReturn, resCell, srcHandle, retrieved, launched, caller, work,
                   result, observed, calls, units, log>>

\* The owner of layer j of the future the callback returned settles it; the
\* innermost layer carries what the callback computed of its argument.
SettleResult(j, o) ==
    /\ j \in DOMAIN resCell
    /\ resCell[j].st = "pending"
    /\ o.st = "value" =>
          /\ o.tag = (IF j = Len(functor.nest) THEN "int" ELSE "inner")
          /\ o.n = (IF j = Len(functor.nest) THEN Apply(functor.fn, work.arg) ELSE 0)
    /\ resCell' = [resCell EXCEPT ![j] = o]
    /\ UNCHANGED <<static, twoVars, settles, holders, readyAtReturn, pendingAtReturn, srcCell, srcHandle, retrieved, launched, caller, work,
                   result, observed, calls, units, log>>

\* What a shared state may be settled with.
Outcomes ==
    {Error(e) : e \in Errors} \cup {Value("int", n) : n \in Values}
        \cup {Value("inner", 0), Value("unit", 0)}

(* ----------------------------- the then call ---------------------------- *)

\* async(launch::deferred, ...) whatever the policy says.
LaunchChoicesDeferred(p) == {"deferred"}

\* async(launch::async, ...): the policy argument is not passed on.
LaunchChoicesIgnored(p) == {"async"}

\* std::async(policy, ...): the launch the runtime makes of the policy.
LaunchChoices(p) ==
    CASE p = "deferred" -> {"deferred"}
      [] p = "async" -> {"async"}
      [] p = "system" -> {"deferred", "async"}

\* The unit of work as it is handed to a new thread.
Ready == [Idle EXCEPT !.pc = "ready", !.runner = "worker"]

\* The unit of work as it starts to resolve the source on thread r.
Started(r) == [Idle EXCEPT !.pc = "resolve", !.runner = r, !.layer = 1]

\* A then that moves whatever it is given, a promise included.
TakeArgumentMovesPromise ==
    /\ srcHandle' = IF source.kind = "shared" THEN "valid" ELSE "moved"
    /\ retrieved' = (source.kind = "promise")

\* A then that leaves a future with its caller and works on a reference.
TakeArgumentByReference ==
    /\ srcHandle' = "valid"
    /\ retrieved' = (source.kind = "promise")

\* What the call does to the caller's source: a future is moved from, a
\* shared_future is copied, a promise hands out its future and stays.
TakeArgument ==
    /\ srcHandle' = IF source.kind = "future" THEN "moved" ELSE "valid"
    /\ retrieved' = (source.kind = "promise")

\* A source or callback type for which then does not instantiate: the program
\* that makes this call does not build.
ThenIllFormed ==
    /\ caller = "start"
    /\ ~WellFormed
    /\ caller' = "ill_formed"
    /\ UNCHANGED <<static, twoVars, settles, holders, readyAtReturn, pendingAtReturn, srcCell, resCell, srcHandle, retrieved, launched, work,
                   result, observed, calls, units, log>>

\* A then that takes the source on the calling thread before it hands the
\* work to std::async: the call waits for a pending source.
ThenTakesFirst ==
    /\ caller = "start"
    /\ policy # "detached"
    /\ WellFormed
    /\ srcCell[1].st # "pending"
    /\ \E m \in LaunchChoices(policy) :
          /\ launched' = m
          /\ units' = IF m = "async" THEN units + 1 ELSE units
          /\ work' = IF m = "async" THEN Ready ELSE Idle
    /\ TakeArgument
    /\ caller' = "called"
    /\ pendingAtReturn' = FALSE
    /\ UNCHANGED <<static, twoVars, settles, holders, readyAtReturn, srcCell, resCell, result, observed, calls, log>>

\* then(source, f, launch): std::async either starts a thread for the unit of
\* work or defers it to the first request; the call returns its future.
Then ==
    /\ caller = "start"
    /\ policy # "detached"
    /\ WellFormed
    /\ \E m \in LaunchChoices(policy) :
          /\ launched' = m
          /\ units' = IF m = "async" THEN units + 1 ELSE units
          /\ work' = IF m = "async" THEN Ready ELSE Idle
    /\ TakeArgument
    /\ caller' = "called"
    /\ pendingAtReturn' = (srcCell[1].st = "pending")
    /\ UNCHANGED <<static, twoVars, settles, holders, readyAtReturn, srcCell, resCell, result, observed, calls, log>>

\* A thread lambda that captures the shared pointer by reference: the thread
\* holds no share of the promise.
LambdaCapturesByReference == {}

\* The thread lambda [p, f] captures the shared pointer by copy: the thread
\* holds a share of the promise for as long as its function object lives.
LambdaCaptures == {"thread"}

\* then(source, f, then_launch::detached), first half: make the shared
\* promise and start the detached thread.
ThenDetachedSpawn ==
    /\ caller = "start"
    /\ policy = "detached"
    /\ WellFormed
    /\ launched' = "thread"
    /\ units' = units + 1
    /\ work' = Ready
    /\ holders' = {"caller"} \cup LambdaCaptures
    /\ TakeArgument
    /\ caller' = "spawned"
    /\ UNCHANGED <<static, twoVars, settles, readyAtReturn, pendingAtReturn, srcCell, resCell,
                   result, observed, calls, log>>

\* The second half with the thread joined instead of detached: the call
\* returns only when the unit of work has ended.
ThenDetachedJoin ==
    /\ caller = "spawned"
    /\ work.pc = "done"
    /\ caller' = "called"
    /\ pendingAtReturn' = FALSE
    /\ readyAtReturn' = TRUE
    /\ holders' = holders \ {"caller"}
    /\ UNCHANGED <<static, twoVars, settles, srcCell, resCell, srcHandle, retrieved, launched, work,
                   result, observed, calls, units, log>>

\* A second half that returns the future of another, fresh promise: what the
\* thread has settled or will settle does not reach the caller.
ThenDetachedReturnFresh ==
    /\ caller = "spawned"
    /\ caller' = "called"
    /\ pendingAtReturn' = (srcCell[1].st = "pending")
    /\ readyAtReturn' = (result.st # "pending")
    /\ holders' = holders \ {"caller"}
    /\ result' = Pending
    /\ UNCHANGED <<static, twoVars, settles, srcCell, resCell, srcHandle, retrieved, launched,
                   work, observed, calls, units, log>>

\* Second half: return p->get_future(); the local shared pointer goes out of
\* scope.
ThenDetachedReturn ==
    /\ caller = "spawned"
    /\ caller' = "called"
    /\ pendingAtReturn' = (srcCell[1].st = "pending")
    /\ readyAtReturn' = (result.st # "pending")
    /\ holders' = holders \ {"caller"}
    /\ UNCHANGED <<static, twoVars, settles, srcCell, resCell, srcHandle, retrieved, launched, work,
                   result, observed, calls, units, log>>

(* --------------------------- the unit of work --------------------------- *)

\* The started thread begins to run the unit of work.
UnitStart ==
    /\ work.pc = "ready"
    /\ work' = Started("worker")
    /\ UNCHANGED <<static, twoVars, settles, holders, readyAtReturn, pendingAtReturn, srcCell, resCell, srcHandle, retrieved, launched, caller,
                   result, observed, calls, units, log>>

\* A dispatch that does not wait for the source: whatever the layer holds
\* now is taken as its value.
TakeSourceNoWait ==
    /\ work.pc = "resolve"
    /\ LET r == recursive_get(srcCell[work.layer], work.layer = Len(source.type))
       IN  work' = CASE r.to = "throw" -> [work EXCEPT !.pc = "raised", !.out = r.out]
                     [] r.to = "return" -> [work EXCEPT !.pc = "invoke", !.arg = r.out.n]
                     [] r.to = "recurse" -> [work EXCEPT !.layer = work.layer + 1]
    /\ log' = Append(log, Event("take_source", work.layer, Stored(srcCell[work.layer])))
    /\ UNCHANGED <<static, twoVars, settles, holders, readyAtReturn, pendingAtReturn, srcCell, resCell, srcHandle, retrieved,
                   launched, caller, result, observed, calls, units>>

\* then_helper::dispatch, its argument recursive_get<T>::get(s): take the
\* next layer of the source, waiting until it has settled.
TakeSource ==
    /\ work.pc = "resolve"
    /\ srcCell[work.layer].st # "pending"
    /\ LET r == recursive_get(srcCell[work.layer], work.layer = Len(source.type))
       IN  work' = CASE r.to = "throw" -> [work EXCEPT !.pc = "raised", !.out = r.out]
                     [] r.to = "return" -> [work EXCEPT !.pc = "invoke", !.arg = r.out.n]
                     [] r.to = "recurse" -> [work EXCEPT !.layer = work.layer + 1]
    /\ log' = Append(log, Event("take_source", work.layer, Stored(srcCell[work.layer])))
    /\ UNCHANGED <<static, twoVars, settles, holders, readyAtReturn, pendingAtReturn, srcCell, resCell, srcHandle, retrieved, launched, caller,
                   result, observed, calls, units>>

\* An invoke that catches what the callback raises and returns nothing.
InvokeNoThrow ==
    /\ work.pc = "invoke"
    /\ calls' = calls + 1
    /\ \E e \in Errors :
          /\ work' = [work EXCEPT !.pc = "returned", !.out = Value("unit", 0)]
          /\ log' = log \o <<Event("invoke", 0, "none"), Event("raise", 0, e)>>
    /\ UNCHANGED <<static, twoVars, settles, holders, readyAtReturn, pendingAtReturn, srcCell, resCell, srcHandle, retrieved,
                   launched, caller, result, observed, units>>

\* then_invoke_helper::invoke: call the callback with the resolved value.  It
\* raises an error, or returns; a returned future goes on to be resolved.
Invoke ==
    /\ work.pc = "invoke"
    /\ calls' = calls + 1
    /\ \/ \E e \in Errors :
             /\ work' = [work EXCEPT !.pc = "raised", !.out = Error(e)]
             /\ log' = log \o <<Event("invoke", 0, "none"), Event("raise", 0, e)>>
             /\ UNCHANGED resCell
       \/ /\ optional_get(functor.ret) = "identity"
          /\ work' = [work EXCEPT !.pc = "returned", !.out = Returned(functor, work.arg)]
          /\ log' = log \o <<Event("invoke", 0, "none"), Event("return", 0, "none")>>
          /\ UNCHANGED resCell
       \/ /\ optional_get(functor.ret) = "recursive_get"
          /\ work' = [work EXCEPT !.pc = "resolve_result", !.layer = 1]
          /\ resCell' = [j \in 1..Len(functor.nest) |-> Pending]
          /\ log' = log \o <<Event("invoke", 0, "none"), Event("return", 0, "none")>>
    /\ UNCHANGED <<static, twoVars, settles, holders, readyAtReturn, pendingAtReturn, srcCell, srcHandle, retrieved, launched, caller,
                   result, observed, units>>

\* optional_get<future<R>>::get: take the next layer of the future the
\* callback returned, waiting until it has settled.
TakeResult ==
    /\ work.pc = "resolve_result"
    /\ resCell[work.layer].st # "pending"
    /\ LET r == recursive_get(resCell[work.layer], work.layer = Len(functor.nest))
       IN  work' = CASE r.to = "throw" -> [work EXCEPT !.pc = "raised", !.out = r.out]
                     [] r.to = "return" -> [work EXCEPT !.pc = "returned", !.out = r.out]
                     [] r.to = "recurse" -> [work EXCEPT !.layer = work.layer + 1]
    /\ log' = Append(log, Event("take_result", work.layer, Stored(resCell[work.layer])))
    /\ UNCHANGED <<static, twoVars, settles, holders, readyAtReturn, pendingAtReturn, srcCell, resCell, srcHandle, retrieved, launched, caller,
                   result, observed, calls, units>>

\* The task of std::async ends: its value, or the error it raised, becomes
\* the state of the future that then returned.
AsyncComplete ==
    /\ launched \in {"deferred", "async"}
    /\ work.pc \in {"returned", "raised"}
    /\ result' = work.out
    /\ settles' = [settles EXCEPT ![work.out.st] = @ + 1]
    /\ work' = [work EXCEPT !.pc = "done"]
    /\ UNCHANGED <<static, twoVars, holders, readyAtReturn, pendingAtReturn, srcCell, resCell,
                   srcHandle, retrieved, launched, caller, observed, calls, units, log>>

\* The calls made on the promise: of set_value, and of set_exception.
Sets(v, x) == [value |-> v, error |-> x]

\* dispatch without its catch block: an error leaves the thread's function.
detached_dispatch_uncaught(out) ==
    IF out.st = "error"
    THEN [p |-> Pending, terminate |-> TRUE, sets |-> Sets(0, 0)]
    ELSE [p |-> Value(out.tag, out.n), terminate |-> FALSE, sets |-> Sets(1, 0)]

\* dispatch with set_exception after the try block instead of in a catch
\* block: it is called on success too.
detached_dispatch_falls_through(out) ==
    IF out.st = "error"
    THEN [p |-> Error(out.e), terminate |-> FALSE, sets |-> Sets(0, 1)]
    ELSE [p |-> Value(out.tag, out.n), terminate |-> FALSE, sets |-> Sets(1, 1)]

\* dispatch of a void callback with p.set_value() after the try block: the
\* promise is settled with no payload whether or not an error was raised.
detached_dispatch_sets_anyway(out) ==
    IF out.st = "error"
    THEN [p |-> Value("unit", 0), terminate |-> FALSE, sets |-> Sets(1, 0)]
    ELSE [p |-> Value(out.tag, out.n), terminate |-> FALSE, sets |-> Sets(1, 0)]

\* detached_then_helper<T>::dispatch: try { p.set_value(dispatch(s, f)) }
\* catch (...) { p.set_exception(current_exception()) }.
detached_dispatch(out) ==
    IF out.st = "error"
    THEN [p |-> Error(out.e), terminate |-> FALSE, sets |-> Sets(0, 1)]
    ELSE [p |-> Value(out.tag, out.n), terminate |-> FALSE, sets |-> Sets(1, 0)]

\* The detached thread ends: the outcome settles the shared promise *p and
\* the thread's function object, with its captures, is destroyed.  An error
\* that left the thread's function would end the process; a promise that no
\* one holds any more has been destroyed, and the access to it is undefined.
DetachedComplete ==
    /\ launched = "thread"
    /\ work.pc \in {"returned", "raised"}
    /\ LET d == detached_dispatch(work.out)
       IN  IF holders = {}
           THEN /\ work' = [work EXCEPT !.pc = "use_after_free"]
                /\ UNCHANGED <<result, settles>>
           ELSE /\ result' = d.p
                /\ settles' = [value |-> settles.value + d.sets.value,
                               error |-> settles.error + d.sets.error]
                /\ work' = [work EXCEPT !.pc = IF d.terminate THEN "terminated"
                                                ELSE "done"]
    /\ holders' = holders \ {"thread"}
    /\ UNCHANGED <<static, twoVars, readyAtReturn, pendingAtReturn, srcCell, resCell, srcHandle,
                   retrieved, launched, caller, observed, calls, units, log>>

(* --------------------------- the calling thread ------------------------- *)

\* The caller requests the result: get() on the returned future.  A deferred
\* unit of work starts now, on the caller's thread.
Request ==
    /\ caller = "called"
    /\ caller' = "getting"
    /\ work' = IF launched = "deferred" THEN Started("caller") ELSE work
    /\ UNCHANGED <<static, twoVars, settles, holders, readyAtReturn, pendingAtReturn, srcCell, resCell, srcHandle, retrieved, launched,
                   result, observed, calls, units, log>>

\* get() returns the value or rethrows the error once the result has settled.
GetReturn ==
    /\ caller = "getting"
    /\ result.st # "pending"
    /\ observed' = result
    /\ caller' = "got"
    /\ UNCHANGED <<static, twoVars, settles, holders, readyAtReturn, pendingAtReturn, srcCell, resCell, srcHandle, retrieved, launched, work,
                   result, calls, units, log>>

\* The destructor of the future that std::async returned for a launched
\* thread waits for the task to end; a deferred future and the future of the
\* detached promise are released at once.
DtorWaits(l) == l = "async"

\* The caller discards the returned future without requesting the result.
Discard ==
    /\ caller = "called"
    /\ caller' = "discarding"
    /\ UNCHANGED <<static, twoVars, settles, holders, readyAtReturn, pendingAtReturn, srcCell, resCell, srcHandle, retrieved, launched, work,
                   result, observed, calls, units, log>>

\* The destructor of the returned future returns.
DiscardDone ==
    /\ caller = "discarding"
    /\ DtorWaits(launched) => work.pc = "done"
    /\ caller' = "discarded"
    /\ UNCHANGED <<static, twoVars, settles, holders, readyAtReturn, pendingAtReturn, srcCell, resCell, srcHandle, retrieved, launched, work,
                   result, observed, calls, units, log>>

Next ==
    \/ \E i \in DOMAIN srcCell, o \in Outcomes : SettleSource(i, o)
    \/ \E j \in DOMAIN resCell, o \in Outcomes : SettleResult(j, o)
    \/ ThenIllFormed
    \/ Then
    \/ ThenDetachedSpawn
    \/ ThenDetachedReturn
    \/ UnitStart
    \/ TakeSource
    \/ Invoke
    \/ TakeResult
    \/ AsyncComplete
    \/ DetachedComplete
    \/ Request
    \/ GetReturn
    \/ Discard
    \/ DiscardDone

Spec == Init /\ [][Next]_vars

\* A thread that std::async or std::thread has started, and the caller's
\* thread inside get(), keep running: each step of the unit of work is taken
\* if it stays possible. The owners of the source and of a future that the
\* callback returned settle them in the end, and the callback terminates.
Fairness ==
    /\ WF_vars(UnitStart)
    /\ WF_vars(TakeSource)
    /\ WF_vars(Invoke)
    /\ WF_vars(TakeResult)
    /\ WF_vars(AsyncComplete)
    /\ WF_vars(DetachedComplete)
    /\ WF_vars(GetReturn)
    /\ WF_vars(\E i \in DOMAIN srcCell, o \in Outcomes : SettleSource(i, o))
    /\ WF_vars(\E j \in DOMAIN resCell, o \in Outcomes : SettleResult(j, o))

LiveSpec == Spec /\ Fairness

(* ------------------------------ two chains ------------------------------ *)

\* Two chains are put together in one of four ways: both start from copies
\* of one shared_future ("parallel"); the second starts from the future that
\* the first returned, as then(then(source, f), g) ("free"); the same
\* through ThenableFuture, as source.then(f).then(g) ("fluent"); or then is
\* called twice on one promise ("promise").
Arrangements == {"parallel", "free", "fluent", "promise"}

\* The callbacks of the two chains return a plain value or throw.
LinkFunctions == {"succ", "throw"}

\* The error that the callback of chain c throws when it throws.
ThrownBy(c) == IF c = 1 THEN "E1" ELSE "E2"

\* A chain before its then call, and the future of a then call not yet made.
Uncalled(p, f) ==
    [policy |-> p, fn |-> f, pc |-> "uncalled", launched |-> "none", layer |-> 0,
     arg |-> 0, out |-> Pending, calls |-> 0]
NoFuture == [cell |-> Pending, handle |-> "none", takes |-> 0, get |-> "no", seen |-> Pending]

\* One chain alone has not been called and stays so.
OneIdle ==
    /\ policy = "deferred"
    /\ source = [kind |-> "future", type |-> <<"future">>, payload |-> "int"]
    /\ functor = [ret |-> "plain", nest |-> <<>>, fn |-> "id"]
    /\ srcCell = <<Pending>>
    /\ resCell = <<>>
    /\ srcHandle = "valid"
    /\ retrieved = FALSE
    /\ launched = "none"
    /\ caller = "start"
    /\ work = Idle
    /\ result = Pending
    /\ observed = Pending
    /\ calls = 0
    /\ units = 0
    /\ log = <<>>
    /\ pendingAtReturn = FALSE
    /\ settles = [value |-> 0, error |-> 0]
    /\ holders = {}
    /\ readyAtReturn = FALSE

\* The caller holds the source: a shared_future for two parallel chains, a
\* future for then(then(...)), a ThenableFuture for the fluent chain, a
\* promise that has not handed out its future for two calls on a promise.
PairInit ==
    /\ OneIdle
    /\ arrangement \in Arrangements
    /\ \E t \in NestTypes :
          /\ t[1] = (IF arrangement = "parallel" THEN "shared" ELSE "future")
          /\ origin = [type |-> t, cell |-> [i \in 1..Len(t) |-> Pending],
                       handle |-> CASE arrangement = "fluent" -> "thenable"
                                    [] arrangement = "promise" -> "promise"
                                    [] OTHER -> t[1],
                       takes |-> [i \in 1..Len(t) |-> 0], read |-> Pending,
                       retrieved |-> FALSE]
    /\ links \in [1..2 -> {Uncalled(p, f) : p \in Policies, f \in LinkFunctions}]
    /\ futures = [c \in 1..2 |-> NoFuture]

\* Chain c starts from the caller's source; otherwise from the future that
\* the first then call returned.
FromOrigin(c) == arrangement \in {"parallel", "promise"} \/ c = 1

\* The static type of the source of chain c: the first chain's callback
\* returns an int, so the future it returned is a future<int>.
SourceType(c) == IF FromOrigin(c) THEN origin.type ELSE <<"future">>

\* The handle through which the source of chain c is given to then.
SourceHandle(c) == IF FromOrigin(c) THEN origin.handle ELSE futures[1].handle

\* The shared state of layer i of the source of chain c.
SourceCell(c, i) == IF FromOrigin(c) THEN origin.cell[i] ELSE futures[1].cell

\* A then that moves from whatever it is given, a shared_future included.
PassedOnMoved(h) == "moved"

\* What the caller is left with after then(h, ...): a shared_future is
\* copied into the unit of work and a promise is only asked for its future;
\* a future (a ThenableFuture is one) is moved.
PassedOn(h) == IF h \in {"shared", "promise"} THEN h ELSE "moved"

\* A promise that hands out a future on its state every time it is asked.
get_future_again(handedOut) == "future"

\* s.get_future() in then(promise<T>& s, ...): the promise hands out the
\* future of its shared state once, and throws future_already_retrieved in
\* the calling thread when it is asked again.
get_future(handedOut) == IF handedOut THEN "throw" ELSE "future"

\* constexpr ThenableFuture(): a future without a shared state.
ThenableFutureDefault(k) == "empty"

\* ThenableFuture(future<T>&& f) : future<T>(move(f)): the new object has the
\* shared state that f had, if it had one.
ThenableFuture(k) == IF k \in {"future", "thenable"} THEN "thenable" ELSE "empty"

\* then2(args...): then(args...), and its future moved into a ThenableFuture.
then2(k) == ThenableFuture(k)

\* The owner of layer i of the source settles it.
PairSettle(i, o) ==
    /\ arrangement # "single"
    /\ origin.cell[i].st = "pending"
    /\ o.st = "value" => o.tag = (IF i < Len(origin.type) THEN "inner" ELSE "int")
    /\ origin' = [origin EXCEPT !.cell[i] = o]
    /\ UNCHANGED <<oneVars, arrangement, links, futures>>

\* The source of chain c is in the caller's hands, in the form that the
\* arrangement calls then on.
Callable(c) ==
    /\ arrangement # "single"
    /\ links[c].pc = "uncalled"
    /\ SourceHandle(c) = (CASE arrangement = "parallel" -> "shared"
                            [] arrangement = "free" -> "future"
                            [] arrangement = "fluent" -> "thenable"
                            [] arrangement = "promise" -> "promise")

\* The argument s.get_future() of the inner then call can be evaluated: the
\* source is not a promise, or the promise still has its future.
FutureObtained(c) ==
    arrangement = "promise" => get_future(origin.retrieved) = "future"

\* then on a nest that recursive_get does not instantiate for: no chain.
ThenPairIllFormed(c) ==
    /\ Callable(c)
    /\ ~Instantiable(SourceType(c))
    /\ links' = [links EXCEPT ![c].pc = "ill_formed"]
    /\ UNCHANGED <<oneVars, arrangement, origin, futures>>

\* then on a promise whose future has been handed out: get_future() throws
\* while the arguments of the inner then call are evaluated, so the call is
\* left by the error before anything is launched.
ThenPairAlreadyRetrieved(c) ==
    /\ Callable(c)
    /\ Instantiable(SourceType(c))
    /\ ~FutureObtained(c)
    /\ links' = [links EXCEPT ![c].pc = "threw",
                              ![c].out = Error("future_already_retrieved")]
    /\ UNCHANGED <<oneVars, arrangement, origin, futures>>

\* The then call of chain c: then(source, f, policy), or in the fluent
\* arrangement source.then(f, policy), which is then2(move(*this), f, policy).
\* The unit of work is launched as the policy says and gets the source.
ThenPair(c) ==
    /\ Callable(c)
    /\ Instantiable(SourceType(c))
    /\ FutureObtained(c)
    /\ \E l \in (IF links[c].policy = "detached" THEN {"thread"}
                 ELSE LaunchChoices(links[c].policy)) :
          links' = [links EXCEPT ![c].launched = l,
                                 ![c].pc = IF l = "deferred" THEN "deferred" ELSE "ready"]
    /\ origin' = IF FromOrigin(c)
                 THEN [origin EXCEPT !.handle = PassedOn(@),
                                     !.retrieved = @ \/ arrangement = "promise"]
                 ELSE origin
    /\ futures' = [d \in 1..2 |->
                     IF d = c
                     THEN [futures[d] EXCEPT !.handle = IF arrangement = "fluent"
                                                        THEN then2("future") ELSE "future"]
                     ELSE IF FromOrigin(c) THEN futures[d]
                     ELSE [futures[d] EXCEPT !.handle = PassedOn(@)]]
    /\ UNCHANGED <<oneVars, arrangement>>

\* The thread of chain c starts on the unit of work.
PairStart(c) ==
    /\ arrangement # "single"
    /\ links[c].pc = "ready"
    /\ links' = [links EXCEPT ![c].pc = "resolve", ![c].layer = 1]
    /\ UNCHANGED <<oneVars, arrangement, origin, futures>>

\* Someone waits in get() on the future that chain c returned: the caller,
\* or the second chain's unit of work that has it as its source.
Requested(c) ==
    \/ futures[c].get = "waiting"
    \/ ~FromOrigin(2) /\ c = 1 /\ links[2].pc = "resolve"

\* A deferred unit of work runs in the thread that requests its result.
PairRunDeferred(c) ==
    /\ arrangement # "single"
    /\ links[c].pc = "deferred"
    /\ Requested(c)
    /\ links' = [links EXCEPT ![c].pc = "resolve", ![c].layer = 1]
    /\ UNCHANGED <<oneVars, arrangement, origin, futures>>

\* recursive_get on the source of chain c: k.get() of the next layer, once
\* it has settled.  get() of a future takes its state; get() of a
\* shared_future reads it.
PairTake(c) ==
    /\ arrangement # "single"
    /\ links[c].pc = "resolve"
    /\ LET i == links[c].layer
           k == SourceCell(c, i)
           r == recursive_get(k, i = Len(SourceType(c)))
       IN  /\ k.st # "pending"
           /\ links' = CASE r.to = "throw" ->
                              [links EXCEPT ![c].pc = "raised", ![c].out = r.out]
                         [] r.to = "return" ->
                              [links EXCEPT ![c].pc = "invoke", ![c].arg = r.out.n]
                         [] r.to = "recurse" ->
                              [links EXCEPT ![c].layer = i + 1]
           /\ origin' = IF FromOrigin(c) /\ origin.type[i] = "future"
                        THEN [origin EXCEPT !.takes[i] = @ + 1] ELSE origin
           /\ futures' = IF FromOrigin(c) THEN futures
                         ELSE [futures EXCEPT ![1].takes = @ + 1]
    /\ UNCHANGED <<oneVars, arrangement>>

\* The callback of chain c is invoked with the resolved value.
PairInvoke(c) ==
    /\ arrangement # "single"
    /\ links[c].pc = "invoke"
    /\ links' = IF links[c].fn = "throw"
                THEN [links EXCEPT ![c].pc = "raised", ![c].calls = @ + 1,
                                   ![c].out = Error(ThrownBy(c))]
                ELSE [links EXCEPT ![c].pc = "returned", ![c].calls = @ + 1,
                                   ![c].out = Value("int", Apply("succ", links[c].arg))]
    /\ UNCHANGED <<oneVars, arrangement, origin, futures>>

\* The unit of work of chain c ends and its outcome settles the future that
\* the then call returned: through the promise under the detached policy,
\* through std::async otherwise.
PairComplete(c) ==
    /\ arrangement # "single"
    /\ links[c].pc \in {"returned", "raised"}
    /\ futures' = [futures EXCEPT ![c].cell =
                      IF links[c].launched = "thread"
                      THEN detached_dispatch(links[c].out).p ELSE links[c].out]
    /\ links' = [links EXCEPT ![c].pc = "done"]
    /\ UNCHANGED <<oneVars, arrangement, origin>>

\* The caller requests the result of chain c from the future it holds.
PairGet(c) ==
    /\ arrangement # "single"
    /\ FromOrigin(c) => arrangement \in {"parallel", "promise"}
    /\ futures[c].handle \in {"future", "thenable"}
    /\ futures[c].get = "no"
    /\ futures' = [futures EXCEPT ![c].get = "waiting"]
    /\ UNCHANGED <<oneVars, arrangement, origin, links>>

\* get() on the returned future returns its value or rethrows its error.
PairGetReturn(c) ==
    /\ arrangement # "single"
    /\ futures[c].get = "waiting"
    /\ futures[c].cell.st # "pending"
    /\ futures' = [futures EXCEPT ![c].get = "got", ![c].seen = futures[c].cell,
                                  ![c].takes = @ + 1, ![c].handle = "taken"]
    /\ UNCHANGED <<oneVars, arrangement, origin, links>>

\* The caller reads the shared_future it gave to the two chains.
ReadOriginal ==
    /\ arrangement = "parallel"
    /\ origin.handle = "shared"
    /\ origin.cell[1].st # "pending"
    /\ origin.read = Pending
    /\ origin' = [origin EXCEPT !.read = origin.cell[1]]
    /\ UNCHANGED <<oneVars, arrangement, links, futures>>

PairNext ==
    \/ \E i \in DOMAIN origin.cell, o \in Outcomes : PairSettle(i, o)
    \/ \E c \in 1..2 : ThenPairIllFormed(c)
    \/ \E c \in 1..2 : ThenPairAlreadyRetrieved(c)
    \/ \E c \in 1..2 : ThenPair(c)
    \/ \E c \in 1..2 : PairStart(c)
    \/ \E c \in 1..2 : PairRunDeferred(c)
    \/ \E c \in 1..2 : PairTake(c)
    \/ \E c \in 1..2 : PairInvoke(c)
    \/ \E c \in 1..2 : PairComplete(c)
    \/ \E c \in 1..2 : PairGet(c)
    \/ \E c \in 1..2 : PairGetReturn(c)
    \/ ReadOriginal

PairSpec == PairInit /\ [][PairNext]_vars

(* ------------------------------ properties ----------------------------- *)

\* The layer at which resolving a nest fails: the outermost layer settled
\* with an error, all layers outside it holding values (at most one layer).
ErrLayers(cells) ==
    {i \in DOMAIN cells :
        /\ cells[i].st = "error"
        /\ \A j \in 1..(i - 1) : cells[j].st = "value"}

\* The errors raised so far inside the unit of work, from the log.
RaisedErrors == {log[k].e : k \in DOMAIN log} \ {"none"}

\* C1: for every policy and every source kind, once the source has settled
\* with an error E the callback is never invoked, the chain result settles
\* with nothing but E, and a request for the result rethrows exactly E.
C1_SourceErrorReraised ==
    \A i \in ErrLayers(srcCell) :
        /\ calls = 0
        /\ result.st # "pending" => result = Error(srcCell[i].e)
        /\ caller = "got" => observed = Error(srcCell[i].e)

\* C1 happens: a promise source whose inner future failed, chained under the
\* detached policy, and the caller's request rethrew that error.
C1_Witness ==
    /\ policy = "detached"
    /\ source.kind = "promise"
    /\ ErrLayers(srcCell) = {2}
    /\ caller = "got"
    /\ observed = Error(srcCell[2].e)
    /\ calls = 0

\* C2: under the detached policy no error leaves the spawned thread (the
\* process is never terminated), and every error raised while resolving the
\* source, invoking the callback or resolving the callback's result is what
\* the result promise is settled with, unchanged.
C2_DetachedCatchesAll ==
    policy = "detached" =>
        /\ work.pc # "terminated"
        /\ \A e \in RaisedErrors :
              /\ work.pc \in {"raised", "done"}
              /\ work.pc = "done" => result = Error(e)
              /\ work.pc = "raised" => result = Pending

\* C2 happens: the future the callback returned failed in the detached
\* thread, and the promise was settled with that error.
C2_Witness ==
    /\ policy = "detached"
    /\ work.pc = "done"
    /\ \E k \in DOMAIN log :
          /\ log[k].ev = "take_result"
          /\ log[k].e # "none"
          /\ result = Error(log[k].e)

\* The innermost value of the source: what the callback is to receive.
SourceValue == srcCell[Len(source.type)].n

\* The nest has settled as far as its resolution goes: down to a failed
\* layer, or with a value at every layer.
Settled(cells) ==
    \/ ErrLayers(cells) # {}
    \/ \A i \in DOMAIN cells : cells[i].st = "value"

\* What the chain result is to hold when nothing fails: the innermost value
\* of the future the callback returned, or else what the callback returned.
ChainValue ==
    IF functor.ret = "future"
    THEN Value("int", resCell[Len(functor.nest)].n)
    ELSE Returned(functor, SourceValue)

\* C3: under the detached policy then starts exactly one thread, and neither
\* half of the call ever waits, whatever the state of the source; the
\* returned future settles only after the source has settled, with the
\* callback's resolved value or with the error that was raised.
C3_DetachedReturnsAtOnce ==
    policy = "detached" =>
        /\ units = (IF caller \in {"start", "ill_formed"} THEN 0 ELSE 1)
        /\ (caller = "start" /\ WellFormed) => ENABLED ThenDetachedSpawn
        /\ caller = "spawned" => ENABLED ThenDetachedReturn
        /\ result.st # "pending" => Settled(srcCell)
        /\ result.st = "value" => (calls = 1 /\ result = ChainValue)
        /\ result.st = "error" => RaisedErrors = {result.e}

\* C3 happens: the detached then returned while the source was pending, and
\* the caller's later request produced the callback's value.
C3_Witness ==
    /\ policy = "detached"
    /\ pendingAtReturn
    /\ caller = "got"
    /\ observed.st = "value"
    /\ observed = ChainValue

\* C4 as stated: under async or the default policy the calling thread waits
\* neither in then nor when it discards the returned future.
C4_NeverWaitsUnlessRequested ==
    policy \in {"async", "system"} =>
        /\ (caller = "start" /\ WellFormed) => ENABLED Then
        /\ caller = "discarding" => ENABLED DiscardDone

\* C4 amended: under async or the default policy then never waits; the
\* discarded future of a deferred chain is released at once; the discarded
\* future of a chain launched on a thread is released exactly when the unit
\* of work has ended, so until then the calling thread waits in it.
C4_WaitsOnlyInRequestOrAsyncDiscard ==
    policy \in {"async", "system"} =>
        /\ (caller = "start" /\ WellFormed) => ENABLED Then
        /\ caller = "discarding" =>
              (ENABLED DiscardDone <=> (launched = "deferred" \/ work.pc = "done"))
        /\ (caller = "discarded" /\ launched = "async") => work.pc = "done"

\* C4 happens: then returned on a pending source under the default policy,
\* the runtime launched a thread, and the caller now waits in the destructor
\* of the discarded future for a source that has not settled.
C4_Witness ==
    /\ policy = "system"
    /\ launched = "async"
    /\ pendingAtReturn
    /\ caller = "discarding"
    /\ srcCell[1].st = "pending"
    /\ ~ENABLED DiscardDone

C6_PromiseResultResolved ==
    result.st = "value" =>
        /\ result.tag \in {"int", "unit"}
        /\ functor.ret = "promise" =>
              result = Value("int", Apply(functor.fn, SourceValue))

\* The positions of the log at which event ev stands.
At(ev) == {k \in DOMAIN log : log[k].ev = ev}

\* What C7 says of the nests that instantiate: the layers are taken one by
\* one from the outermost, a failed layer ends the resolution with its error,
\* and the callback receives the innermost value.
ResolvedLayerByLayer ==
    /\ \A k \in At("take_source") :
          /\ log[k].i = k
          /\ log[k].e = Stored(srcCell[k])
          /\ srcCell[k].st # "pending"
    /\ \A i \in ErrLayers(srcCell) :
          work.pc \notin {"none", "ready", "resolve"} =>
              (work.out = Error(srcCell[i].e) /\ Len(log) = i)
    /\ calls > 0 =>
          /\ \A i \in DOMAIN srcCell : srcCell[i].st = "value" /\ i \in At("take_source")
          /\ work.arg = SourceValue

\* C7: a source nested in any mix of future and shared_future layers is
\* resolved: then instantiates for every source nest, the layers are taken
\* one by one from the outermost, and the callback receives the innermost
\* value or the error of a failed layer is raised.
C7_AnyNestResolved ==
    /\ caller = "ill_formed" => Instantiable(source.type)
    /\ ResolvedLayerByLayer

\* C8: under the deferred policy nothing of the chain runs before the result
\* is requested or when it is never requested; on the request the work runs
\* on the requesting thread, once, and has ended when the request returns;
\* an identity callback hands on the value of the source.
C8_DeferredRunsOnRequest ==
    policy = "deferred" =>
        /\ launched \in {"none", "deferred"}
        /\ units = 0
        /\ caller \in {"start", "ill_formed", "called", "discarding", "discarded"} =>
              (work = Idle /\ calls = 0 /\ log = <<>> /\ result = Pending)
        /\ work.pc # "none" => work.runner = "caller"
        /\ Cardinality(At("invoke")) <= 1
        /\ calls = Cardinality(At("invoke"))
        /\ caller = "got" => work.pc = "done"
        /\ (caller = "got" /\ observed.st = "value") => calls = 1
        /\ (caller = "got" /\ observed.st = "value"
              /\ functor.ret = "plain" /\ functor.fn = "id") =>
              observed = Value("int", SourceValue)

\* C8 happens: a source that was ready at the call, an identity callback, the
\* deferred policy, and the request produced the value of the source.
C8_Witness ==
    /\ policy = "deferred"
    /\ ~pendingAtReturn
    /\ functor.ret = "plain"
    /\ functor.fn = "id"
    /\ caller = "got"
    /\ calls = 1
    /\ observed = Value("int", SourceValue)

\* C9: under deferred, async or the default policy an error E raised by the
\* callback is raised after then has returned, becomes the error state of
\* the chain result, and reaches the caller only through a request.
C9_CallbackErrorIsResult ==
    policy # "detached" =>
        /\ observed.st # "pending" => caller = "got"
        /\ \A k \in At("raise") :
              /\ caller \notin {"start", "ill_formed"}
              /\ work.pc \in {"raised", "done"}
              /\ work.pc = "done" => result = Error(log[k].e)
              /\ work.pc = "raised" => result = Pending
              /\ caller = "got" => observed = Error(log[k].e)

\* C9 happens: the default policy launched a thread, the callback raised,
\* and the caller's request rethrew that error.
C9_Witness ==
    /\ policy = "system"
    /\ launched = "async"
    /\ caller = "got"
    /\ \E k \in At("raise") : observed = Error(log[k].e)

\* C10: in every chain, under every policy, every layer of the source has
\* been taken, in order, before the callback is invoked, no layer of the
\* source is pending when it is invoked, and the callback has returned
\* before any layer of the future it returned is taken.
C10_ResolveInvokeResolve ==
    /\ \A k \in At("take_source") : log[k].i = k /\ k <= Len(source.type)
    /\ \A k \in At("invoke") :
          /\ k = Len(source.type) + 1
          /\ \A i \in 1..Len(source.type) :
                log[i] = Event("take_source", i, "none") /\ srcCell[i].st = "value"
    /\ \A k \in At("take_result") :
          /\ log[Len(source.type) + 2].ev = "return"
          /\ k = Len(source.type) + 2 + log[k].i
    /\ calls > 0 => \A i \in DOMAIN srcCell : srcCell[i].st # "pending"
    /\ calls = Cardinality(At("invoke"))

\* C10 happens: a two-layer source was taken, the callback returned a
\* two-layer future, and both of its layers were taken after the return.
C10_Witness ==
    /\ Len(source.type) = 2
    /\ functor.ret = "future"
    /\ Len(log) = 6
    /\ log[6] = Event("take_result", 2, "none")
    /\ result.st = "value"

\* C11: under every policy the callback is invoked at most once and the
\* chain result is settled at most once, by one set-value or one
\* set-exception and never both; when the unit of work has ended, exactly
\* one of the two has been made, and the result holds what it stored.
C11_SettledExactlyOnce ==
    /\ calls <= 1
    /\ settles.value + settles.error <= 1
    /\ settles.value = (IF result.st = "value" THEN 1 ELSE 0)
    /\ settles.error = (IF result.st = "error" THEN 1 ELSE 0)
    /\ work.pc = "done" => settles.value + settles.error = 1
    /\ settles.value + settles.error = 1 => work.pc = "done"

\* C11 happens: the callback raised in the detached thread, once, and the
\* promise received one set-exception and no set-value.
C11_Witness ==
    /\ policy = "detached"
    /\ calls = 1
    /\ At("raise") # {}
    /\ work.pc = "done"
    /\ settles = Sets(0, 1)
    /\ result.st = "error"

\* C13: after then on a promise has returned, the promise is where it was
\* and has handed out its future; while it is unsettled its owner can settle
\* it with any error or with a value; and what it was settled with is what
\* the chain took and, for a value, what the callback was given.
C13_PromiseLeftIntact ==
    (source.kind = "promise" /\ caller \notin {"start", "ill_formed"}) =>
        /\ srcHandle = "valid"
        /\ retrieved
        /\ srcCell[1].st = "pending" =>
              /\ \A e \in Errors : ENABLED SettleSource(1, Error(e))
              /\ \E o \in Outcomes : o.st = "value" /\ ENABLED SettleSource(1, o)
        /\ \A k \in At("take_source") : log[k].e = Stored(srcCell[log[k].i])
        /\ calls > 0 => work.arg = SourceValue

\* C13 happens: then returned on an unsettled promise, the owner then set
\* its value, and the caller received what the callback made of that value.
C13_Witness ==
    /\ source.kind = "promise"
    /\ pendingAtReturn
    /\ srcCell[1] = Value("int", NValues)
    /\ functor.ret = "plain"
    /\ caller = "got"
    /\ observed = Value("int", Apply(functor.fn, NValues))

\* C14: under every policy a future given to then is the caller's until the
\* call and is moved from once the call has been made; the chain takes each
\* of its layers at most once.
C14_FutureMovedFrom ==
    source.kind = "future" =>
        /\ srcHandle = (IF caller \in {"start", "ill_formed"} THEN "valid" ELSE "moved")
        /\ \A i \in DOMAIN srcCell :
              Cardinality({k \in At("take_source") : log[k].i = i}) <= 1

\* C14 happens: a deferred chain on a future has not run, and the caller's
\* future has been moved from all the same.
C14_Witness ==
    /\ source.kind = "future"
    /\ policy = "deferred"
    /\ caller = "called"
    /\ work = Idle
    /\ srcHandle = "moved"

\* C16: the result of a void callback is settled with no payload, and only
\* after the callback has returned without an error; a void source is taken
\* before the callback is invoked with no argument, and its stored error
\* settles the result while the callback is not invoked; under the detached
\* policy the promise is settled with no payload only on success.
C16_VoidCallbackAndSource ==
    /\ functor.ret = "void" =>
          /\ result.st = "value" =>
                /\ result = Value("unit", 0)
                /\ calls = 1
                /\ At("return") # {}
                /\ RaisedErrors = {}
          /\ RaisedErrors # {} => result.st # "value"
    /\ source.payload = "void" =>
          /\ calls > 0 =>
                /\ log[1] = Event("take_source", 1, "none")
                /\ srcCell[1] = Value("unit", 0)
                /\ work.arg = 0
          /\ \A i \in ErrLayers(srcCell) :
                /\ calls = 0
                /\ result.st # "pending" => result = Error(srcCell[i].e)

\* C16 happens: a void source and a void callback under the detached policy,
\* and the caller's request returned with no value.
C16_Witness ==
    /\ policy = "detached"
    /\ source.payload = "void"
    /\ functor.ret = "void"
    /\ calls = 1
    /\ caller = "got"
    /\ observed = Value("unit", 0)

\* The unit of work has been started and has not ended.
Running == work.pc \in {"ready", "resolve", "invoke", "resolve_result", "returned", "raised"}

\* C18: under the detached policy the promise is held by the thread for as
\* long as the thread runs and by the caller until then returns, and the
\* thread never reaches a destroyed promise; discarding the returned future
\* never waits, and after it every step of the thread goes ahead as before.
C18_PromiseOutlivesBoth ==
    policy = "detached" =>
        /\ work.pc # "use_after_free"
        /\ Running => "thread" \in holders
        /\ caller = "spawned" => "caller" \in holders
        /\ holders = {} => (caller # "spawned" /\ ~Running)
        /\ caller = "discarding" => ENABLED DiscardDone
        /\ caller \in {"discarding", "discarded"} =>
              /\ work.pc = "ready" => ENABLED UnitStart
              /\ (work.pc = "resolve" /\ srcCell[work.layer].st # "pending") =>
                    ENABLED TakeSource
              /\ work.pc = "invoke" => ENABLED Invoke
              /\ (work.pc = "resolve_result" /\ resCell[work.layer].st # "pending") =>
                    ENABLED TakeResult
              /\ work.pc \in {"returned", "raised"} => ENABLED DetachedComplete
              /\ work.pc = "done" => (result.st # "pending" /\ holders = {})

\* C18 happens: the caller discarded the returned future while the source
\* was pending, and the thread went on to invoke the callback and settle the
\* promise.
C18_Witness ==
    /\ policy = "detached"
    /\ caller = "discarded"
    /\ pendingAtReturn
    /\ calls = 1
    /\ work.pc = "done"
    /\ result = ChainValue

\* C20: under the detached policy the thread may settle the promise before
\* the caller obtains the future from it or after; either way the second
\* half of then goes ahead, a settlement made before it is still there after
\* it, the ended thread has left its outcome in the result, and the caller's
\* request returns that outcome.
C20_NoSettlementLost ==
    policy = "detached" =>
        /\ caller = "spawned" => ENABLED ThenDetachedReturn
        /\ readyAtReturn => result.st # "pending"
        /\ work.pc = "done" =>
              result = (IF work.out.st = "error" THEN Error(work.out.e) ELSE work.out)
        /\ (caller = "getting" /\ work.pc = "done") => ENABLED GetReturn
        /\ caller = "got" => (work.pc = "done" /\ observed = result)

\* C20 happens: the thread had settled the promise with an error before the
\* caller obtained the future, and the caller's request rethrew that error.
C20_Witness ==
    /\ policy = "detached"
    /\ readyAtReturn
    /\ caller = "got"
    /\ observed.st = "error"
    /\ RaisedErrors = {observed.e}

\* The call has been made and has dispatched the chain.
Dispatched == caller \notin {"start", "ill_formed"}

OriginOutcome ==
    LET n == Len(origin.type)
        errs == {i \in 1..n : /\ origin.cell[i].st = "error"
                              /\ \A j \in 1..(i - 1) : origin.cell[j].st = "value"}
    IN  IF errs # {} THEN Error(origin.cell[CHOOSE i \in errs : TRUE].e)
        ELSE IF \A i \in 1..n : origin.cell[i].st = "value" THEN origin.cell[n]
        ELSE Pending

\* What chain c makes of the outcome o of its source.
After(c, o) ==
    IF o.st # "value" THEN o
    ELSE IF links[c].fn = "throw" THEN Error(ThrownBy(c))
    ELSE Value("int", Apply("succ", o.n))

\* The then call of chain c has been made and has built the chain.
Built(c) == links[c].pc \notin {"uncalled", "ill_formed", "threw"}

\* C12: with two chains on copies of one shared_future, under any policies
\* and in any interleaving, the caller's shared_future stays valid, can be
\* read once settled and reads as the source was settled; the second chain
\* can be built whatever the first has done; each callback is invoked at
\* most once and with the source's innermost value, and not at all when the
\* source holds an error, which then settles both results.
C12_SharedSourceServesBoth ==
    arrangement = "parallel" =>
        /\ origin.handle = "shared"
        /\ (origin.cell[1].st # "pending" /\ origin.read = Pending) => ENABLED ReadOriginal
        /\ origin.read # Pending => origin.read = origin.cell[1]
        /\ \A c \in 1..2 :
              /\ (links[c].pc = "uncalled" /\ Instantiable(origin.type)) => ENABLED ThenPair(c)
              /\ links[c].calls <= 1
              /\ links[c].calls = 1 =>
                    (OriginOutcome.st = "value" /\ links[c].arg = OriginOutcome.n)
              /\ OriginOutcome.st = "error" => links[c].calls = 0
              /\ futures[c].cell.st # "pending" => futures[c].cell = After(c, OriginOutcome)

\* C12 happens: an async chain and a detached chain on the same
\* shared_future were both invoked with its value, and the caller read the
\* original.
C12_Witness ==
    /\ arrangement = "parallel"
    /\ links[1].policy = "async"
    /\ links[2].policy = "detached"
    /\ links[1].calls = 1
    /\ links[2].calls = 1
    /\ links[1].arg = NValues
    /\ links[2].arg = NValues
    /\ origin.read # Pending

\* C15: then(then(source, f), g) and source.then(f).then(g) settle the final
\* future with the same outcome, the one that g makes of what f makes of the
\* source's outcome, and the caller's request returns it; what each fluent
\* link returns is a ThenableFuture with a shared state, on which the next
\* link can be called.
C15_FluentEqualsFree ==
    arrangement \in {"free", "fluent"} =>
        /\ futures[2].cell.st # "pending" =>
              futures[2].cell = After(2, After(1, OriginOutcome))
        /\ futures[2].get = "got" => futures[2].seen = After(2, After(1, OriginOutcome))
        /\ \A c \in 1..2 :
              Built(c) => futures[c].handle \in
                  {IF arrangement = "fluent" THEN "thenable" ELSE "future", "moved", "taken"}
        /\ (Built(1) /\ links[2].pc = "uncalled") => ENABLED ThenPair(2)

\* C15 happens: a fluent chain of a deferred and a detached link returned to
\* the caller what the two callbacks made of the source's value.
C15_Witness ==
    /\ arrangement = "fluent"
    /\ links[1].policy = "deferred"
    /\ links[2].policy = "detached"
    /\ OriginOutcome = Value("int", NValues)
    /\ futures[2].get = "got"
    /\ futures[2].seen = Value("int", Apply("succ", Apply("succ", NValues)))

C21_SecondThenOnPromiseThrows ==
    arrangement = "promise" =>
        /\ origin.handle = "promise"
        /\ ~(Built(1) /\ Built(2))
        /\ origin.retrieved <=> (Built(1) \/ Built(2))
        /\ \A i \in DOMAIN origin.takes : origin.takes[i] <= 1
        /\ \A c \in 1..2 :
              /\ (links[c].pc = "uncalled" /\ origin.retrieved /\ Instantiable(origin.type)) =>
                    (ENABLED ThenPairAlreadyRetrieved(c) /\ ~ENABLED ThenPair(c))
              /\ links[c].pc = "threw" =>
                    /\ links[c].out = Error("future_already_retrieved")
                    /\ links[c].launched = "none"
                    /\ links[c].calls = 0
                    /\ futures[c] = NoFuture
                    /\ Built(3 - c)
              /\ Built(c) =>
                    /\ links[c].calls <= 1
                    /\ futures[c].cell.st # "pending" =>
                          futures[c].cell = After(c, OriginOutcome)

\* C21 happens: the second then on the promise threw in the caller, and the
\* chain of the first then was invoked with the promise's value and gave the
\* caller its result.
C21_Witness ==
    /\ arrangement = "promise"
    /\ links[2].pc = "threw"
    /\ links[1].calls = 1
    /\ OriginOutcome = Value("int", NValues)
    /\ futures[1].get = "got"
    /\ futures[1].seen = Value("int", Apply("succ", NValues))

====
